---- MODULE Spec2Model ----
(***************************************************************************)
(* Model of StockDataAnalyzer (utils.py): default date range resolution,   *)
(* the two provider fetches, column projection and the outer join on Date. *)
(* One caller drives one analyzer; the system clock and the data provider  *)
(* are the environment.                                                    *)
(***************************************************************************)
EXTENDS Integers, Sequences, FiniteSets, TLC

\* ------------------------------------------------------------------------
\* Bounds of the model
\* ------------------------------------------------------------------------
MaxTicks == 1   \* midnights the clock may cross during a run
MaxRows == 2    \* rows of a provider table

\* ------------------------------------------------------------------------
\* Python values
\* ------------------------------------------------------------------------
\* A str is a sequence of one-character strings; None is kept apart from
\* every str by holding a multi-character element.
None == <<"None">>

Str(s) == s # None

\* bool(x) for x an Optional[str]: None and '' are falsy.
Truthy(x) == x # None /\ Len(x) > 0

\* Python's `x or y`: x when x is truthy, else y.
Or(x, y) == IF Truthy(x) THEN x ELSE y

\* ------------------------------------------------------------------------
\* datetime: the clock is a proleptic Gregorian ordinal (date.toordinal()),
\* the time of day never reaches the '%Y-%m-%d' output.
\* ------------------------------------------------------------------------
DaysBeforeMonth == <<0, 31, 59, 90, 120, 151, 181, 212, 243, 273, 304, 334>>

DaysInMonth == <<31, 28, 31, 30, 31, 30, 31, 31, 30, 31, 30, 31>>

\* CPython's _ord2ymd: ordinal -> <<year, month, day>>.
ord2ymd(ordinal) ==
    LET n0 == ordinal - 1
        n400 == n0 \div 146097
        r400 == n0 % 146097
        n100 == r400 \div 36524
        r100 == r400 % 36524
        n4 == r100 \div 1461
        r4 == r100 % 1461
        n1 == r4 \div 365
        n == r4 % 365
        year == n400 * 400 + 1 + n100 * 100 + n4 * 4 + n1
        leapyear == n1 = 3 /\ (n4 # 24 \/ n100 = 3)
        leap(m) == IF m > 2 /\ leapyear THEN 1 ELSE 0
        month0 == (n + 50) \div 32
        preceding0 == DaysBeforeMonth[month0] + leap(month0)
        month == IF preceding0 > n THEN month0 - 1 ELSE month0
        febleap == IF month = 2 /\ leapyear THEN 1 ELSE 0
        preceding == IF preceding0 > n
                     THEN preceding0 - (DaysInMonth[month] + febleap)
                     ELSE preceding0
    IN  IF n1 = 4 \/ n100 = 4
        THEN <<year - 1, 12, 31>>
        ELSE <<year, month, n - preceding + 1>>

Digit(d) == <<"0", "1", "2", "3", "4", "5", "6", "7", "8", "9">>[d + 1]

\* strftime('%Y-%m-%d') of the date with the given ordinal.
strftime(ordinal) ==
    LET ymd == ord2ymd(ordinal)
        y == ymd[1]
        m == ymd[2]
        d == ymd[3]
    IN  << Digit((y \div 1000) % 10), Digit((y \div 100) % 10),
           Digit((y \div 10) % 10), Digit(y % 10), "-",
           Digit(m \div 10), Digit(m % 10), "-",
           Digit(d \div 10), Digit(d % 10) >>

\* datetime - timedelta(days=days), on ordinals.
timedelta(ordinal, days) == ordinal - days

\* Days the clock shows when the analyzer is constructed:
\* 2024-12-31 (a leap year's last day) and 2024-02-29.
ClockStarts == {739251, 738945}

\* ------------------------------------------------------------------------
\* pandas: a DataFrame is its index name, its column names in order and its
\* rows in order; a row is a record holding the index field (when the index
\* is named) and one field per column.
\* ------------------------------------------------------------------------
\* The marker of a missing value; every provider value is positive.
NaN == 0 - 1

RangeIndex == "RangeIndex"

Range(seq) == {seq[i] : i \in DOMAIN seq}

RECURSIVE Concat(_)
\* The concatenation of a sequence of sequences.
Concat(seqs) ==
    IF seqs = <<>> THEN <<>> ELSE Head(seqs) \o Concat(Tail(seqs))

\* df[cols] : KeyError when a requested column is absent.
SelectRaises(df, cols) == \E i \in DOMAIN cols : cols[i] \notin Range(df.columns)

\* The frame itself, no column dropped.
SelectAll(df, cols) == df

Select(df, cols) ==
    LET keep == Range(cols) \cup (IF df.index = RangeIndex THEN {} ELSE {df.index})
    IN  [ index |-> df.index,
          columns |-> cols,
          rows |-> [i \in DOMAIN df.rows |-> [f \in keep |-> df.rows[i][f]]] ]

\* df.reset_index(): the index becomes the first column (named after the
\* index, 'index' for an unnamed one) and a RangeIndex takes its place.
reset_index(df) ==
    IF df.index = RangeIndex
    THEN [ index |-> RangeIndex,
           columns |-> <<"index">> \o df.columns,
           rows |-> [i \in DOMAIN df.rows |->
                       [f \in Range(df.columns) \cup {"index"} |->
                           IF f = "index" THEN i - 1 ELSE df.rows[i][f]]] ]
    ELSE [ index |-> RangeIndex,
           columns |-> <<df.index>> \o df.columns,
           rows |-> df.rows ]

\* df.columns = names, for a RangeIndex frame with len(names) columns:
\* the columns are renamed by position.
set_columns(df, names) ==
    LET old(f) == df.columns[CHOOSE i \in DOMAIN names : names[i] = f]
    IN  [ index |-> df.index,
          columns |-> names,
          rows |-> [i \in DOMAIN df.rows |->
                      [f \in Range(names) |-> df.rows[i][old(f)]]] ]

RECURSIVE SortedKeys(_)
\* The elements of a finite set of integers in ascending order.
SortedKeys(S) ==
    IF S = {} THEN <<>>
    ELSE LET m == CHOOSE x \in S : \A y \in S : x <= y
         IN  <<m>> \o SortedKeys(S \ {m})

\* pd.merge(left, right, on=key, how=how) of two RangeIndex frames whose
\* only common column is key: KeyError when either lacks the key column;
\* else the keys that how selects, in ascending order (pandas sorts the keys
\* of an outer join, and line 97 sorts by the key in any case), every left
\* row of a key paired with every right row of that key, the fields of an
\* absent side NaN.
MergeRaises(left, right, key) ==
    key \notin Range(left.columns) \/ key \notin Range(right.columns)

Merge(left, right, key, how) ==
    LET rcols == SelectSeq(right.columns, LAMBDA c : c # key)
        cols == left.columns \o rcols
        lkeys == {left.rows[i][key] : i \in DOMAIN left.rows}
        rkeys == {right.rows[i][key] : i \in DOMAIN right.rows}
        keys == CASE how = "outer" -> lkeys \cup rkeys
                  [] how = "inner" -> lkeys \cap rkeys
                  [] how = "left" -> lkeys
                  [] how = "right" -> rkeys
        join(l, r) == [f \in Range(cols) |->
                          IF f \in Range(left.columns) THEN l[f] ELSE r[f]]
        leftOnly(l) == [f \in Range(cols) |->
                          IF f \in Range(left.columns) THEN l[f] ELSE NaN]
        rightOnly(r) == [f \in Range(cols) |->
                          IF f = key \/ f \notin Range(left.columns)
                          THEN r[f] ELSE NaN]
        group(k) ==
            LET L == SelectSeq(left.rows, LAMBDA l : l[key] = k)
                R == SelectSeq(right.rows, LAMBDA r : r[key] = k)
            IN  IF R = <<>> THEN [i \in DOMAIN L |-> leftOnly(L[i])]
                ELSE IF L = <<>> THEN [i \in DOMAIN R |-> rightOnly(R[i])]
                ELSE [i \in 1..(Len(L) * Len(R)) |->
                        join(L[((i - 1) \div Len(R)) + 1],
                             R[((i - 1) % Len(R)) + 1])]
        sorted == SortedKeys(keys)
    IN  [ index |-> RangeIndex,
          columns |-> cols,
          rows |-> Concat([i \in DOMAIN sorted |-> group(sorted[i])]) ]

\* how='inner': only the keys both frames hold.
MergeInner(left, right, key) == Merge(left, right, key, "inner")

MergeOuter(left, right, key) == Merge(left, right, key, "outer")

RECURSIVE InsertSorted(_, _, _)
InsertSorted(row, rows, by) ==
    IF rows = <<>> THEN <<row>>
    ELSE IF row[by] < Head(rows)[by] THEN <<row>> \o rows
    ELSE <<Head(rows)>> \o InsertSorted(row, Tail(rows), by)

RECURSIVE SortRows(_, _)
SortRows(rows, by) ==
    IF rows = <<>> THEN <<>>
    ELSE InsertSorted(rows[Len(rows)],
                      SortRows(SubSeq(rows, 1, Len(rows) - 1), by), by)

\* df.sort_values(by): the rows in ascending order of column by.
sort_values(df, by) ==
    [ index |-> df.index, columns |-> df.columns, rows |-> SortRows(df.rows, by) ]

\* df.set_index(key) of a RangeIndex frame: the column becomes the index.
set_index(df, key) ==
    [ index |-> key,
      columns |-> SelectSeq(df.columns, LAMBDA c : c # key),
      rows |-> df.rows ]

\* The value of a variable that holds no frame.
NoFrame == [ index |-> "None", columns |-> <<>>, rows |-> <<>> ]

\* ------------------------------------------------------------------------
\* The provider (yfinance Ticker.history): daily bars indexed by Date
\* ------------------------------------------------------------------------
ProviderColumns ==
    <<"Open", "High", "Low", "Close", "Volume", "Dividends", "Stock Splits">>

\* The bar of trading day d in quote variant v; the fields differ pairwise.
Bar(d, v) ==
    [ f \in {"Date"} \cup Range(ProviderColumns) |->
        IF f = "Date" THEN d
        ELSE LET k == CHOOSE i \in DOMAIN ProviderColumns : ProviderColumns[i] = f
             IN  100 * k + 10 * v + d ]

Variants == {1, 2}

\* The trading days a provider table draws its rows from (Timestamps, kept
\* as their order).
TradingDays == {1, 2, 3}

\* The orders in which a table may list up to MaxRows distinct trading days.
DateSeqs ==
    UNION { { q \in [1..n -> TradingDays] :
                \A i, j \in 1..n : i # j => q[i] # q[j] } : n \in 0..MaxRows }

\* A table with the provider's columns (empty tables included).
BarTables ==
    { [ index |-> "Date", columns |-> ProviderColumns,
        rows |-> [i \in DOMAIN q |-> Bar(q[i], v)] ] :
      q \in DateSeqs, v \in Variants }

\* An empty table that carries no column at all (pd.DataFrame()).
EmptyNoColumns == [ index |-> RangeIndex, columns |-> <<>>, rows |-> <<>> ]

Tables == BarTables \cup {EmptyNoColumns}

\* A few tables, for runs that remember an earlier call.
FewTables ==
    { EmptyNoColumns,
      [ index |-> "Date", columns |-> ProviderColumns,
        rows |-> <<Bar(2, 1), Bar(1, 1)>> ],
      [ index |-> "Date", columns |-> ProviderColumns,
        rows |-> <<Bar(2, 2), Bar(3, 2)>> ] }

ProviderErrors == {"ConnectionError", "ValueError"}

\* ------------------------------------------------------------------------
\* The caller's inputs
\* ------------------------------------------------------------------------
Tickers == {"TSLA"}

StartArgs ==
    { None, <<>>,
      <<"2", "0", "2", "4", "-", "0", "5", "-", "0", "1">> }

EndArgs ==
    { None, <<>>,
      <<"2", "0", "2", "4", "-", "1", "2", "-", "2", "9">> }

\* ------------------------------------------------------------------------
\* State
\* ------------------------------------------------------------------------
VARIABLES
    ctor_ticker,    \* the ticker_symbol argument of __init__ (history)
    ticker_symbol,  \* self.ticker_symbol
    _ticker,        \* self._ticker
    now,            \* the system clock's day (ordinal)
    ticks,          \* midnights crossed so far
    op,             \* the method the caller invoked, "none" when idle
    arg_start,      \* its start_date argument
    arg_end,        \* its end_date argument
    method,         \* the method now executing (get_combined_data's callee)
    pc,             \* position in the executing method
    call_day,       \* the clock's day when the executing method was entered
    dates,          \* the dict _get_default_dates is building / has returned
    requests,       \* history() calls issued during this invocation
    replies,        \* the provider's answers to them, in order
    price_data,     \* get_combined_data's local
    volume_data,    \* get_combined_data's local
    outcome,        \* "none" while running, "ok", or the exception raised
    result,         \* the frame returned to the caller
    saved           \* an earlier completed invocation (history)

vars ==
    << ctor_ticker, ticker_symbol, _ticker, now, ticks, op, arg_start, arg_end,
       method, pc, call_day, dates, requests, replies, price_data, volume_data,
       outcome, result, saved >>

self == <<ticker_symbol, _ticker>>

clock == <<now, ticks>>

NoDates == [start_date |-> None, end_date |-> None]

NoCall ==
    [ op |-> "none", start |-> None, end |-> None, replies |-> <<>>,
      outcome |-> "none", result |-> NoFrame ]

\* yf.Ticker(ticker_symbol)
Ticker(symbol) == [ticker |-> symbol]

\* __init__, then an idle caller.
Init ==
    /\ ctor_ticker \in Tickers
    /\ ticker_symbol = ctor_ticker
    /\ _ticker = Ticker(ctor_ticker)
    /\ now \in ClockStarts
    /\ ticks = 0
    /\ op = "none"
    /\ arg_start = None
    /\ arg_end = None
    /\ method = "none"
    /\ pc = "idle"
    /\ call_day = 0
    /\ dates = NoDates
    /\ requests = <<>>
    /\ replies = <<>>
    /\ price_data = NoFrame
    /\ volume_data = NoFrame
    /\ outcome = "none"
    /\ result = NoFrame
    /\ saved = NoCall

\* ------------------------------------------------------------------------
\* Environment: the clock crosses a midnight
\* ------------------------------------------------------------------------
Tick ==
    /\ ticks < MaxTicks
    /\ now' = now + 1
    /\ ticks' = ticks + 1
    /\ UNCHANGED << ctor_ticker, self, op, arg_start, arg_end, method, pc,
                    call_day, dates, requests, replies, price_data,
                    volume_data, outcome, result, saved >>

\* ------------------------------------------------------------------------
\* The caller invokes a method
\* ------------------------------------------------------------------------
Invoke(name, first, start_date, end_date) ==
    /\ pc = "idle"
    /\ op' = name
    /\ arg_start' = start_date
    /\ arg_end' = end_date
    /\ method' = first
    /\ pc' = "L33"
    /\ call_day' = now
    /\ UNCHANGED << ctor_ticker, self, clock, dates, requests, replies,
                    price_data, volume_data, outcome, result, saved >>

get_stock_data ==
    \E s \in StartArgs, e \in EndArgs :
        Invoke("get_stock_data", "get_stock_data", s, e)

get_daily_volume ==
    \E s \in StartArgs, e \in EndArgs :
        Invoke("get_daily_volume", "get_daily_volume", s, e)

\* Line 93 enters get_stock_data with the caller's own arguments.
get_combined_data ==
    \E s \in StartArgs, e \in EndArgs :
        Invoke("get_combined_data", "get_stock_data", s, e)

\* ------------------------------------------------------------------------
\* _get_default_dates: two separate reads of the clock
\* ------------------------------------------------------------------------
\* Line 33: end_date = datetime.now().strftime('%Y-%m-%d')
_get_default_dates_end ==
    /\ pc = "L33"
    /\ dates' = [dates EXCEPT !.end_date = strftime(now)]
    /\ pc' = "L34"
    /\ UNCHANGED << ctor_ticker, self, clock, op, arg_start, arg_end, method,
                    call_day, requests, replies, price_data, volume_data,
                    outcome, result, saved >>

\* Line 34: start_date = (datetime.now() - timedelta(days=365)).strftime(...)
_get_default_dates_start ==
    /\ pc = "L34"
    /\ dates' = [dates EXCEPT !.start_date = strftime(timedelta(now, 365))]
    /\ pc' = "history"
    /\ UNCHANGED << ctor_ticker, self, clock, op, arg_start, arg_end, method,
                    call_day, requests, replies, price_data, volume_data,
                    outcome, result, saved >>

\* ------------------------------------------------------------------------
\* The provider call of get_stock_data (51-54) and get_daily_volume (71-74)
\* ------------------------------------------------------------------------
\* The range handed to history(): `start_date or dates['start_date']`, ...
resolve(start_date, end_date, defaults) ==
    [ start |-> Or(start_date, defaults.start_date),
      end |-> Or(end_date, defaults.end_date) ]

\* get_combined_data sending the volume request along with the price
\* request, without waiting for the prices.
history_call_parallel ==
    /\ pc = "history"
    /\ LET range == resolve(arg_start, arg_end, dates)
           req(m) == [ method |-> m, ticker |-> _ticker.ticker,
                       start |-> range.start, end |-> range.end ]
       IN  requests' =
              IF op = "get_combined_data" /\ method = "get_stock_data"
              THEN requests \o <<req("get_stock_data"), req("get_daily_volume")>>
              ELSE Append(requests, req(method))
    /\ pc' = "await"
    /\ UNCHANGED << ctor_ticker, self, clock, op, arg_start, arg_end, method,
                    call_day, dates, replies, price_data, volume_data,
                    outcome, result, saved >>

\* The request is sent; the method blocks until the provider answers.
history_call ==
    /\ pc = "history"
    /\ LET range == resolve(arg_start, arg_end, dates)
       IN  requests' = Append(requests,
                              [ method |-> method, ticker |-> _ticker.ticker,
                                start |-> range.start, end |-> range.end ])
    /\ pc' = "await"
    /\ UNCHANGED << ctor_ticker, self, clock, op, arg_start, arg_end, method,
                    call_day, dates, replies, price_data, volume_data,
                    outcome, result, saved >>

\* The provider answers with a table drawn from tables.
Answer(tables) ==
    /\ pc = "await"
    /\ \E df \in tables :
          replies' = Append(replies, [raised |-> FALSE, err |-> "", df |-> df])
    /\ pc' = "project"
    /\ UNCHANGED << ctor_ticker, self, clock, op, arg_start, arg_end, method,
                    call_day, dates, requests, price_data, volume_data,
                    outcome, result, saved >>

history_return == Answer(Tables)

history_return_few == Answer(FewTables)

\* An exception err leaves the invocation: no handler anywhere on the stack.
Raise(err) ==
    /\ pc' = "done"
    /\ outcome' = err
    /\ result' = NoFrame
    /\ dates' = NoDates
    /\ price_data' = NoFrame
    /\ volume_data' = NoFrame

\* A frame is returned to the caller.
Return(df) ==
    /\ pc' = "done"
    /\ outcome' = "ok"
    /\ result' = df
    /\ dates' = NoDates
    /\ price_data' = NoFrame
    /\ volume_data' = NoFrame

\* The provider's error caught and an empty table substituted for it.
history_raise_fallback ==
    /\ pc = "await"
    /\ \E err \in ProviderErrors :
          replies' = Append(replies,
                            [raised |-> TRUE, err |-> err, df |-> NoFrame])
    /\ IF method = "get_stock_data" /\ op = "get_combined_data"
       THEN /\ price_data' = [ index |-> RangeIndex,
                               columns |-> <<"Date", "Open", "High", "Low", "Close">>,
                               rows |-> <<>> ]
            /\ method' = "get_daily_volume"
            /\ pc' = "L33"
            /\ call_day' = now
            /\ dates' = NoDates
            /\ UNCHANGED << volume_data, outcome, result >>
       ELSE /\ Return([ index |-> RangeIndex, columns |-> <<>>, rows |-> <<>> ])
            /\ UNCHANGED << method, call_day >>
    /\ UNCHANGED << ctor_ticker, self, clock, op, arg_start, arg_end,
                    requests, saved >>

\* The provider's error propagated, the Ticker handle dropped on the way.
history_raise_reset ==
    /\ pc = "await"
    /\ \E err \in ProviderErrors :
          /\ replies' = Append(replies,
                               [raised |-> TRUE, err |-> err, df |-> NoFrame])
          /\ Raise(err)
    /\ _ticker' = [ticker |-> ""]
    /\ UNCHANGED << ctor_ticker, ticker_symbol, clock, op, arg_start, arg_end,
                    method, call_day, requests, saved >>

\* The provider raises: the error propagates out of lines 54/74 and 93/94.
history_raise ==
    /\ pc = "await"
    /\ \E err \in ProviderErrors :
          /\ replies' = Append(replies,
                               [raised |-> TRUE, err |-> err, df |-> NoFrame])
          /\ Raise(err)
    /\ UNCHANGED << ctor_ticker, self, clock, op, arg_start, arg_end, method,
                    call_day, requests, saved >>

\* ------------------------------------------------------------------------
\* Line 55: return df[['Open', 'High', 'Low', 'Close']]
\* ------------------------------------------------------------------------
PriceColumns == <<"Open", "High", "Low", "Close">>

\* The same, the first projection memoised and handed out again whatever
\* the provider answered since.
get_stock_data_return_memo ==
    /\ pc = "project"
    /\ method = "get_stock_data"
    /\ LET df == replies[Len(replies)].df
       IN  IF SelectRaises(df, PriceColumns)
           THEN Raise("KeyError") /\ UNCHANGED << method, call_day >>
           ELSE IF op = "get_stock_data"
           THEN /\ pc' = "done"
                /\ outcome' = "ok"
                /\ result' = IF price_data # NoFrame THEN price_data
                             ELSE Select(df, PriceColumns)
                /\ price_data' = result'
                /\ dates' = NoDates
                /\ volume_data' = NoFrame
                /\ UNCHANGED << method, call_day >>
           ELSE /\ price_data' = reset_index(Select(df, PriceColumns))
                /\ method' = "get_daily_volume"
                /\ pc' = "L33"
                /\ call_day' = now
                /\ dates' = NoDates
                /\ UNCHANGED << volume_data, outcome, result >>
    /\ UNCHANGED << ctor_ticker, self, clock, op, arg_start, arg_end,
                    requests, replies, saved >>

get_stock_data_return ==
    /\ pc = "project"
    /\ method = "get_stock_data"
    /\ LET df == replies[Len(replies)].df
       IN  IF SelectRaises(df, PriceColumns)
           THEN Raise("KeyError") /\ UNCHANGED << method, call_day >>
           ELSE IF op = "get_stock_data"
           THEN Return(Select(df, PriceColumns))
                /\ UNCHANGED << method, call_day >>
           ELSE \* line 93: .reset_index(), then line 94 enters get_daily_volume
                /\ price_data' = reset_index(Select(df, PriceColumns))
                /\ method' = "get_daily_volume"
                /\ pc' = "L33"
                /\ call_day' = now
                /\ dates' = NoDates
                /\ UNCHANGED << volume_data, outcome, result >>
    /\ UNCHANGED << ctor_ticker, self, clock, op, arg_start, arg_end,
                    requests, replies, saved >>

\* ------------------------------------------------------------------------
\* Lines 75-78: hist[['Volume']].reset_index(), columns = ['Date', 'Volume']
\* ------------------------------------------------------------------------
VolumeFrame(hist) ==
    set_columns(reset_index(Select(hist, <<"Volume">>)), <<"Date", "Volume">>)

get_daily_volume_return ==
    /\ pc = "project"
    /\ method = "get_daily_volume"
    /\ LET hist == replies[Len(replies)].df
       IN  IF SelectRaises(hist, <<"Volume">>)
           THEN Raise("KeyError") /\ UNCHANGED method
           ELSE IF op = "get_daily_volume"
           THEN Return(VolumeFrame(hist)) /\ UNCHANGED method
           ELSE \* back in get_combined_data, line 94
                /\ volume_data' = VolumeFrame(hist)
                /\ method' = "get_combined_data"
                /\ pc' = "merge"
                /\ dates' = NoDates
                /\ UNCHANGED << price_data, outcome, result >>
    /\ UNCHANGED << ctor_ticker, self, clock, op, arg_start, arg_end,
                    call_day, requests, replies, saved >>

\* ------------------------------------------------------------------------
\* Lines 96-97: outer merge on Date, sort_values('Date'), set_index('Date')
\* ------------------------------------------------------------------------
Combined(prices, volumes) ==
    set_index(sort_values(MergeOuter(prices, volumes, "Date"), "Date"), "Date")

get_combined_data_return ==
    /\ pc = "merge"
    /\ IF MergeRaises(price_data, volume_data, "Date")
       THEN Raise("KeyError")
       ELSE Return(Combined(price_data, volume_data))
    /\ UNCHANGED << ctor_ticker, self, clock, op, arg_start, arg_end, method,
                    call_day, requests, replies, saved >>

\* ------------------------------------------------------------------------
\* The caller takes the outcome and is free to invoke again
\* ------------------------------------------------------------------------
Idle ==
    /\ pc' = "idle"
    /\ op' = "none"
    /\ arg_start' = None
    /\ arg_end' = None
    /\ method' = "none"
    /\ call_day' = 0
    /\ requests' = <<>>
    /\ replies' = <<>>
    /\ outcome' = "none"
    /\ result' = NoFrame
    /\ UNCHANGED << ctor_ticker, self, clock, dates, price_data, volume_data >>

caller_resume ==
    /\ pc = "done"
    /\ Idle
    /\ UNCHANGED saved

\* The same, the caller keeping this invocation to compare a later one with.
caller_keep ==
    /\ pc = "done"
    /\ Str(arg_start)
    /\ Str(arg_end)
    /\ saved' = [ op |-> op, start |-> arg_start, end |-> arg_end,
                  replies |-> replies, outcome |-> outcome, result |-> result ]
    /\ Idle

\* ------------------------------------------------------------------------
\* Specifications
\* ------------------------------------------------------------------------
Next ==
    \/ Tick
    \/ get_stock_data
    \/ get_daily_volume
    \/ get_combined_data
    \/ _get_default_dates_end
    \/ _get_default_dates_start
    \/ history_call
    \/ history_return
    \/ history_raise
    \/ get_stock_data_return
    \/ get_daily_volume_return
    \/ get_combined_data_return
    \/ caller_resume

Spec == Init /\ [][Next]_vars

\* Runs in which the caller remembers one earlier invocation with explicit
\* bounds; the provider answers from FewTables.
NextKeep ==
    \/ Tick
    \/ get_stock_data
    \/ get_daily_volume
    \/ get_combined_data
    \/ _get_default_dates_end
    \/ _get_default_dates_start
    \/ history_call
    \/ history_return_few
    \/ history_raise
    \/ get_stock_data_return
    \/ get_daily_volume_return
    \/ get_combined_data_return
    \/ caller_resume
    \/ caller_keep

SpecKeep == Init /\ [][NextKeep]_vars

\* ------------------------------------------------------------------------
\* Properties
\* ------------------------------------------------------------------------
Dates(rows) == {rows[i]["Date"] : i \in DOMAIN rows}

Explicit == Str(arg_start) /\ Str(arg_end)

\* C1: a request that get_stock_data or get_daily_volume hands to the
\* provider when neither bound was given has end = the clock's date at some
\* moment d of the call and start = that date minus exactly 365 days.
C1_DefaultRange ==
    (pc = "await" /\ arg_start = None /\ arg_end = None) =>
        LET req == requests[Len(requests)]
        IN  \E d \in call_day..now :
               /\ req.end = strftime(d)
               /\ req.start = strftime(d - 365)

\* C2: every bound the caller supplied (any str, the empty one included)
\* reaches the provider unchanged; only a None bound is replaced by a default.
C2_Verbatim ==
    \A i \in DOMAIN requests :
        /\ Str(arg_start) => requests[i].start = arg_start
        /\ Str(arg_end) => requests[i].end = arg_end

\* C3: the two requests of one get_combined_data invocation carry the same
\* (start, end).
C3_SameRange ==
    (op = "get_combined_data" /\ Len(requests) = 2) =>
        /\ requests[1].start = requests[2].start
        /\ requests[1].end = requests[2].end

\* C4: get_combined_data over a price table P and a volume table V (both
\* with the provider's columns) returns, indexed by Date, one row per date of
\* P or V in ascending order; a date of P carries P's Open/High/Low/Close,
\* else NaN; a date of V carries V's Volume, else NaN.
C4_OuterJoin ==
    ( /\ op = "get_combined_data"
      /\ pc = "done"
      /\ Len(replies) = 2
      /\ ~replies[2].raised
      /\ "Volume" \in Range(replies[2].df.columns) ) =>
        LET P == replies[1].df.rows
            V == replies[2].df.rows
            R == result.rows
        IN  /\ outcome = "ok"
            /\ result.index = "Date"
            /\ result.columns = <<"Open", "High", "Low", "Close", "Volume">>
            /\ Dates(R) = Dates(P) \cup Dates(V)
            /\ Len(R) = Cardinality(Dates(P) \cup Dates(V))
            /\ \A i, j \in DOMAIN R : i < j => R[i]["Date"] < R[j]["Date"]
            /\ \A i \in DOMAIN R :
                  /\ DOMAIN R[i] = {"Date", "Open", "High", "Low", "Close", "Volume"}
                  /\ IF R[i]["Date"] \in Dates(P)
                     THEN \E k \in DOMAIN P :
                             /\ P[k]["Date"] = R[i]["Date"]
                             /\ \A f \in {"Open", "High", "Low", "Close"} :
                                   R[i][f] = P[k][f]
                     ELSE \A f \in {"Open", "High", "Low", "Close"} : R[i][f] = NaN
                  /\ IF R[i]["Date"] \in Dates(V)
                     THEN \E k \in DOMAIN V :
                             /\ V[k]["Date"] = R[i]["Date"]
                             /\ R[i]["Volume"] = V[k]["Volume"]
                     ELSE R[i]["Volume"] = NaN

\* A combined result holding a price-only date, a volume-only date and a
\* date of both.
C4_Witness ==
    /\ op = "get_combined_data"
    /\ pc = "done"
    /\ outcome = "ok"
    /\ \E i \in DOMAIN result.rows :
          result.rows[i]["Volume"] = NaN /\ result.rows[i]["Open"] # NaN
    /\ \E i \in DOMAIN result.rows :
          result.rows[i]["Volume"] # NaN /\ result.rows[i]["Open"] = NaN
    /\ \E i \in DOMAIN result.rows :
          result.rows[i]["Volume"] # NaN /\ result.rows[i]["Open"] # NaN

\* C5: for a provider table R with the price columns, get_stock_data returns
\* R's rows one for one in R's order, each with R's Date and R's
\* Open/High/Low/Close and no other field.
C5_PriceProjection ==
    ( /\ op = "get_stock_data"
      /\ pc = "done"
      /\ ~replies[1].raised
      /\ {"Open", "High", "Low", "Close"} \subseteq Range(replies[1].df.columns) ) =>
        LET R == replies[1].df.rows
        IN  /\ outcome = "ok"
            /\ result.index = "Date"
            /\ result.columns = <<"Open", "High", "Low", "Close">>
            /\ Len(result.rows) = Len(R)
            /\ \A i \in DOMAIN R :
                  /\ DOMAIN result.rows[i] = {"Date", "Open", "High", "Low", "Close"}
                  /\ \A f \in DOMAIN result.rows[i] : result.rows[i][f] = R[i][f]

\* get_stock_data has returned two rows that the provider listed in
\* descending date order.
C5_Witness ==
    /\ op = "get_stock_data"
    /\ pc = "done"
    /\ outcome = "ok"
    /\ Len(result.rows) = 2
    /\ result.rows[1]["Date"] > result.rows[2]["Date"]

\* C6: when every table the provider returned during an invocation has no
\* rows (a table without columns included), the invocation ends without an
\* error and returns no rows.
C6_EmptyIsNoError ==
    ( /\ pc = "done"
      /\ \A i \in DOMAIN replies :
            ~replies[i].raised /\ replies[i].df.rows = <<>> ) =>
        outcome = "ok" /\ result.rows = <<>>

\* C7: once a provider fetch of get_combined_data has raised, the invocation
\* is over with that very error as its outcome and no frame returned; the
\* failed fetch is the last request, and no fetch was requested twice.
C7_ErrorPropagates ==
    \A i \in DOMAIN replies :
        (op = "get_combined_data" /\ replies[i].raised) =>
            /\ pc = "done"
            /\ outcome = replies[i].err
            /\ result = NoFrame
            /\ i = Len(replies)
            /\ i = Len(requests)
            /\ \A j, k \in DOMAIN requests :
                  j # k => requests[j].method # requests[k].method

\* The volume fetch of get_combined_data has raised after the prices came.
C7_Witness ==
    /\ op = "get_combined_data"
    /\ pc = "done"
    /\ Len(replies) = 2
    /\ replies[2].raised
    /\ replies[1].df.rows # <<>>

\* C8: an invocation with explicit bounds that got the same provider answers
\* as a remembered invocation of the same method with the same bounds has
\* the same outcome and returns the same frame.
C8_Pure ==
    ( /\ pc = "done"
      /\ Explicit
      /\ saved.op = op
      /\ saved.start = arg_start
      /\ saved.end = arg_end
      /\ saved.replies = replies ) =>
        saved.outcome = outcome /\ saved.result = result

\* The second of two such get_combined_data invocations has returned rows,
\* on a later day than the analyzer was built.
C8_Witness ==
    /\ pc = "done"
    /\ op = "get_combined_data"
    /\ saved.op = op
    /\ saved.start = arg_start
    /\ saved.end = arg_end
    /\ saved.replies = replies
    /\ outcome = "ok"
    /\ result.rows # <<>>
    /\ ticks > 0

\* C9: requests go out one at a time; only get_combined_data issues a
\* second one, the volume request, and only after the price fetch has
\* returned; get_stock_data and get_daily_volume end with exactly one
\* request, a successful get_combined_data with exactly two, and a failed
\* price fetch is followed by no request.
C9_CallPattern ==
    /\ Len(requests) = Len(replies) + (IF pc = "await" THEN 1 ELSE 0)
    /\ Len(requests) >= 2 =>
          /\ op = "get_combined_data"
          /\ Len(requests) = 2
          /\ requests[1].method = "get_stock_data"
          /\ requests[2].method = "get_daily_volume"
          /\ ~replies[1].raised
    /\ (pc = "done" /\ op \in {"get_stock_data", "get_daily_volume"}) =>
          Len(requests) = 1 /\ requests[1].method = op
    /\ (pc = "done" /\ op = "get_combined_data" /\ outcome = "ok") =>
          Len(requests) = 2
    /\ (op = "get_combined_data" /\ Len(replies) >= 1 /\ replies[1].raised) =>
          Len(requests) = 1

\* get_combined_data has returned after its two fetches.
C9_Witness ==
    /\ pc = "done"
    /\ op = "get_combined_data"
    /\ outcome = "ok"
    /\ Len(replies) = 2

\* C10: the analyzer's ticker_symbol and its Ticker handle are the ones
\* __init__ stored, whatever was invoked since.
C10_TickerImmutable ==
    /\ ticker_symbol = ctor_ticker
    /\ _ticker = Ticker(ctor_ticker)

\* A failed invocation has ended after a successful one.
C10_Witness ==
    /\ pc = "done"
    /\ outcome \notin {"ok", "none"}
    /\ saved.outcome = "ok"

====
